---- MODULE Spec2Model ----
(***************************************************************************)
(* A model of the tutorial programs of the repository.                    *)
(*                                                                         *)
(*  - The "Fast Downloader" (goroutines.go): main makes an unbuffered      *)
(*    channel c, launches three download goroutines and receives three     *)
(*    times.  Goroutines, the channel's wait queues and a clock (for       *)
(*    time.Sleep) are modelled explicitly.                                 *)
(*  - The JSON API's bookHandler (the error-handling article): one request *)
(*    at a time, its body a sequence of JSON tokens.                       *)
(*  - The database programs (connecting-to-databases.go): the basic        *)
(*    connection program, the CRUD API's initDB and main, and the          *)
(*    transaction snippet, with main's deferred calls and log.Fatal.       *)
(***************************************************************************)
EXTENDS Naturals, Integers, Sequences, FiniteSets, TLC

VARIABLES
    prog,       \* the statements of func main, in order
    ip,         \* main: index of the statement main is at
    mainst,     \* main: "run" | "parked" (in c.recvq) | "got" (value in hand) | "exit"
    c,          \* the channel made by make(chan string)
    pc,         \* per download goroutine: "idle" | "start" | "sleep" | "send" | "blocked" | "done"
    wake,       \* per download goroutine: the clock value at which its time.Sleep ends
    sent,       \* per download goroutine: the number of its sends that completed
    received,   \* the values main's receives returned, in order
    stdout,     \* the lines printed, in order
    clock,      \* seconds since the program started
    hpc,        \* bookHandler: "idle" | "method" | "decode" | "respond" | "returned"
    r,          \* bookHandler: the request, [Method, Body]
    w,          \* bookHandler: the ResponseWriter, [status, header, sentHeader, body]
    newBook,    \* bookHandler: var newBook Book
    decoded,    \* bookHandler: the number of Decode calls made for the request
    hlog,       \* the API server's standard output
    program,    \* database programs: "none" | "basic" | "crud" | "tx", the one running
    dbpc,       \* database programs: the statement the program is at
    db,         \* the handle of sql.Open: [state, maxOpen, maxIdle]
    tx,         \* the transaction of db.Begin: "none" | "open" | "committed" | "rolledback" | "aborted"
    defers,     \* the calls main has deferred, in the order deferred
    exit,       \* the process: "running" | "returned" | "os.Exit(1)"
    pending,    \* the statements executed in tx and not yet committed
    tables,     \* the database: [orders, inventory] (rows for Widget, its count)
    calls,      \* the number of calls made of [Rollback, Close]
    failed,     \* the call that returned an error ("" when none has)
    dblog,      \* the database program's output
    served      \* CRUD API: the number of /users requests answered

dvars == <<prog, ip, mainst, c, pc, wake, sent, received, stdout, clock>>
hvars == <<hpc, r, w, newBook, decoded, hlog>>
bvars == <<program, dbpc, db, tx, defers, exit, pending, tables, calls, failed,
           dblog, served>>
vars  == <<prog, ip, mainst, c, pc, wake, sent, received, stdout, clock,
           hpc, r, w, newBook, decoded, hlog,
           program, dbpc, db, tx, defers, exit, pending, tables, calls, failed,
           dblog, served>>

----------------------------------------------------------------------------
(* Bounds of the model.                                                    *)

\* The clock may run on this far while goroutines are runnable (it always
\* runs on to a pending time.Sleep deadline).
MaxClock == 2

\* The longest request body, in tokens.
MaxBodyLen == 5

\* The most receive statements of a variant of main (the Word of Caution).
MaxReceives == 4

\* The most Widgets in stock when the transaction starts.
MaxStock == 2

\* The most requests the CRUD API answers before ListenAndServe fails.
MaxRequests == 3

----------------------------------------------------------------------------
(* The downloader: goroutines.go                                           *)

\* The sites of the three go statements, in launch order.
LaunchOrder == <<"Google.com", "Amazon.com", "Github.com">>

Sites == {LaunchOrder[i] : i \in 1..Len(LaunchOrder)}

\* time.Sleep(2 * time.Second)
SleepSeconds == 2

\* (variant: make(chan string, 3), room for every result)
ChanCapBuffered == Len(LaunchOrder)

\* make(chan string): no capacity argument, so the channel is unbuffered.
ChanCap == 0

\* (variant: every goroutine reports the last site launched)
MessageLastSite(site) == LaunchOrder[Len(LaunchOrder)] \o " is done!"

\* site + " is done!"
Message(site) == site \o " is done!"

StartLine(site) == "Starting download from: " \o site

FinishedLine == "All downloads finished!"

StmtMake == [op |-> "make", site |-> ""]
StmtGo(site) == [op |-> "go", site |-> site]
StmtRecv == [op |-> "recv", site |-> ""]
StmtPrintln == [op |-> "println", site |-> ""]

\* (variant: main with one fmt.Println(<-c) fewer)
MainProgramTwoReceives ==
    <<StmtMake, StmtGo("Google.com"), StmtGo("Amazon.com"), StmtGo("Github.com"),
      StmtRecv, StmtRecv, StmtPrintln>>

\* func main, statement by statement.
MainProgram ==
    <<StmtMake,
      StmtGo("Google.com"), StmtGo("Amazon.com"), StmtGo("Github.com"),
      StmtRecv, StmtRecv, StmtRecv,
      StmtPrintln>>

NilChan == [made |-> FALSE, cap |-> 0, buf |-> <<>>, sendq |-> <<>>, recvq |-> <<>>]

MakeChan(cap) == [made |-> TRUE, cap |-> cap, buf |-> <<>>, sendq |-> <<>>, recvq |-> <<>>]

\* The process lives until main returns.
Alive == mainst # "exit"

CurStmt == IF ip <= Len(prog) THEN prog[ip] ELSE [op |-> "return", site |-> ""]

Launched == {d \in Sites : pc[d] # "idle"}

InitDownloader ==
    /\ ip = 1
    /\ mainst = "run"
    /\ c = NilChan
    /\ pc = [d \in Sites |-> "idle"]
    /\ wake = [d \in Sites |-> 0]
    /\ sent = [d \in Sites |-> 0]
    /\ received = <<>>
    /\ stdout = <<>>
    /\ clock = 0

\* c := make(chan string)
MainMake ==
    /\ Alive /\ mainst = "run" /\ CurStmt.op = "make"
    /\ c' = MakeChan(ChanCap)
    /\ ip' = ip + 1
    /\ UNCHANGED hvars
    /\ UNCHANGED bvars
    /\ UNCHANGED <<prog, mainst, pc, wake, sent, received, stdout, clock>>

\* (variant: the statement is passed over and no goroutine is created)
MainGoSkips ==
    /\ Alive /\ mainst = "run" /\ CurStmt.op = "go"
    /\ ip' = ip + 1
    /\ UNCHANGED hvars
    /\ UNCHANGED bvars
    /\ UNCHANGED <<prog, mainst, c, pc, wake, sent, received, stdout, clock>>

\* (variant: main goes on only when the downloads launched before have slept)
MainGoWaits ==
    /\ Alive /\ mainst = "run" /\ CurStmt.op = "go"
    /\ \A d \in DOMAIN pc : pc[d] \notin {"start", "sleep"}
    /\ pc' = [pc EXCEPT ![CurStmt.site] = "start"]
    /\ ip' = ip + 1
    /\ UNCHANGED hvars
    /\ UNCHANGED bvars
    /\ UNCHANGED <<prog, mainst, c, wake, sent, received, stdout, clock>>

\* go download(site, c): the goroutine is created; main goes on at once.
MainGo ==
    /\ Alive /\ mainst = "run" /\ CurStmt.op = "go"
    /\ pc' = [pc EXCEPT ![CurStmt.site] = "start"]
    /\ ip' = ip + 1
    /\ UNCHANGED hvars
    /\ UNCHANGED bvars
    /\ UNCHANGED <<prog, mainst, c, wake, sent, received, stdout, clock>>

\* c <- elem by goroutine g (the runtime's chansend): hand the value to a
\* waiting receiver, else queue it if the buffer has room, else park g in
\* sendq.  recvd: the value the waiting receiver got; blocked: g is parked.
SendOutcome(ch, g, elem) ==
    IF ch.recvq # <<>>
    THEN [ch |-> [ch EXCEPT !.recvq = Tail(@)], recvd |-> <<elem>>, blocked |-> FALSE]
    ELSE IF Len(ch.buf) < ch.cap
    THEN [ch |-> [ch EXCEPT !.buf = Append(@, elem)], recvd |-> <<>>, blocked |-> FALSE]
    ELSE [ch |-> [ch EXCEPT !.sendq = Append(@, [g |-> g, elem |-> elem])],
          recvd |-> <<>>, blocked |-> TRUE]

\* <-c by main (the runtime's chanrecv): take the value of the first parked
\* sender (through the buffer when there is one) and wake it, else take a
\* buffered value, else park in recvq.  val: the value received; woken: the
\* senders whose send completed; blocked: main is parked.
RecvOutcome(ch) ==
    IF ch.sendq # <<>>
    THEN LET sg == Head(ch.sendq) IN
         IF ch.buf = <<>>
         THEN [ch |-> [ch EXCEPT !.sendq = Tail(@)],
               val |-> <<sg.elem>>, woken |-> {sg.g}, blocked |-> FALSE]
         ELSE [ch |-> [ch EXCEPT !.buf = Append(Tail(@), sg.elem), !.sendq = Tail(@)],
               val |-> <<Head(ch.buf)>>, woken |-> {sg.g}, blocked |-> FALSE]
    ELSE IF ch.buf # <<>>
    THEN [ch |-> [ch EXCEPT !.buf = Tail(@)],
          val |-> <<Head(ch.buf)>>, woken |-> {}, blocked |-> FALSE]
    ELSE [ch |-> [ch EXCEPT !.recvq = Append(@, "main")],
          val |-> <<>>, woken |-> {}, blocked |-> TRUE]

\* <-c of fmt.Println(<-c): the receive itself.
MainRecv ==
    /\ Alive /\ mainst = "run" /\ CurStmt.op = "recv"
    /\ LET o == RecvOutcome(c) IN
       /\ c' = o.ch
       /\ received' = received \o o.val
       /\ mainst' = IF o.blocked THEN "parked" ELSE "got"
       /\ pc' = [d \in Sites |-> IF d \in o.woken THEN "done" ELSE pc[d]]
       /\ sent' = [d \in Sites |-> IF d \in o.woken THEN sent[d] + 1 ELSE sent[d]]
    /\ UNCHANGED hvars
    /\ UNCHANGED bvars
    /\ UNCHANGED <<prog, ip, wake, stdout, clock>>

\* fmt.Println(<-c): the value received is printed and main moves on.
MainPrint ==
    /\ Alive /\ mainst = "got"
    /\ stdout' = Append(stdout, received[Len(received)])
    /\ mainst' = "run"
    /\ ip' = ip + 1
    /\ UNCHANGED hvars
    /\ UNCHANGED bvars
    /\ UNCHANGED <<prog, c, pc, wake, sent, received, clock>>

\* fmt.Println("All downloads finished!")
MainPrintln ==
    /\ Alive /\ mainst = "run" /\ CurStmt.op = "println"
    /\ stdout' = Append(stdout, FinishedLine)
    /\ ip' = ip + 1
    /\ UNCHANGED hvars
    /\ UNCHANGED bvars
    /\ UNCHANGED <<prog, mainst, c, pc, wake, sent, received, clock>>

\* main returns: the process exits, whatever the other goroutines are doing.
MainReturn ==
    /\ Alive /\ mainst = "run" /\ CurStmt.op = "return"
    /\ mainst' = "exit"
    /\ UNCHANGED hvars
    /\ UNCHANGED bvars
    /\ UNCHANGED <<prog, ip, c, pc, wake, sent, received, stdout, clock>>

MainStep == MainMake \/ MainGo \/ MainRecv \/ MainPrint \/ MainPrintln \/ MainReturn

\* fmt.Println("Starting download from:", site); time.Sleep(2 * time.Second)
DownloadStart(d) ==
    /\ Alive /\ pc[d] = "start"
    /\ stdout' = Append(stdout, StartLine(d))
    /\ wake' = [wake EXCEPT ![d] = clock + SleepSeconds]
    /\ pc' = [pc EXCEPT ![d] = "sleep"]
    /\ UNCHANGED hvars
    /\ UNCHANGED bvars
    /\ UNCHANGED <<prog, ip, mainst, c, sent, received, clock>>

\* time.Sleep returns once its duration has passed.
DownloadWake(d) ==
    /\ Alive /\ pc[d] = "sleep" /\ clock >= wake[d]
    /\ pc' = [pc EXCEPT ![d] = "send"]
    /\ UNCHANGED hvars
    /\ UNCHANGED bvars
    /\ UNCHANGED <<prog, ip, mainst, c, wake, sent, received, stdout, clock>>

\* (variant: download returns without sending)
DownloadSkipSend(d) ==
    /\ Alive /\ pc[d] = "send"
    /\ pc' = [pc EXCEPT ![d] = "done"]
    /\ UNCHANGED hvars
    /\ UNCHANGED bvars
    /\ UNCHANGED <<prog, ip, mainst, c, wake, sent, received, stdout, clock>>

\* (variant: a download sends only after the downloads launched before it)
DownloadSendInLaunchOrder(d) ==
    /\ Alive /\ pc[d] = "send"
    /\ \A i, j \in 1..Len(LaunchOrder) :
          (i < j /\ LaunchOrder[j] = d) => pc[LaunchOrder[i]] \in {"blocked", "done"}
    /\ LET o == SendOutcome(c, d, Message(d)) IN
       /\ c' = o.ch
       /\ received' = received \o o.recvd
       /\ mainst' = IF o.recvd # <<>> THEN "got" ELSE mainst
       /\ pc' = [pc EXCEPT ![d] = IF o.blocked THEN "blocked" ELSE "done"]
       /\ sent' = [sent EXCEPT ![d] = IF o.blocked THEN @ ELSE @ + 1]
    /\ UNCHANGED hvars
    /\ UNCHANGED bvars
    /\ UNCHANGED <<prog, ip, wake, stdout, clock>>

\* c <- site + " is done!"; then download returns.
DownloadSend(d) ==
    /\ Alive /\ pc[d] = "send"
    /\ LET o == SendOutcome(c, d, Message(d)) IN
       /\ c' = o.ch
       /\ received' = received \o o.recvd
       /\ mainst' = IF o.recvd # <<>> THEN "got" ELSE mainst
       /\ pc' = [pc EXCEPT ![d] = IF o.blocked THEN "blocked" ELSE "done"]
       /\ sent' = [sent EXCEPT ![d] = IF o.blocked THEN @ ELSE @ + 1]
    /\ UNCHANGED hvars
    /\ UNCHANGED bvars
    /\ UNCHANGED <<prog, ip, wake, stdout, clock>>

DownloadStep(d) == DownloadStart(d) \/ DownloadWake(d) \/ DownloadSend(d)

TimerPending == \E d \in Sites : pc[d] = "sleep" /\ wake[d] > clock

\* (variant: main's wait ends when a timeout has passed, as with a
\* select on time.After)
TickTimesOut ==
    /\ Alive
    /\ clock < MaxClock \/ TimerPending
    /\ clock' = clock + 1
    /\ IF mainst = "parked" /\ clock' >= SleepSeconds - 1
       THEN /\ mainst' = "run"
            /\ ip' = Len(prog) + 1
            /\ c' = [c EXCEPT !.recvq = <<>>]
       ELSE UNCHANGED <<mainst, ip, c>>
    /\ UNCHANGED hvars
    /\ UNCHANGED bvars
    /\ UNCHANGED <<prog, pc, wake, sent, received, stdout>>

\* A second passes.  Nothing bounds how long a runnable goroutine waits for
\* the scheduler: time may pass at any moment.
Tick ==
    /\ Alive
    /\ clock < MaxClock \/ TimerPending
    /\ clock' = clock + 1
    /\ UNCHANGED hvars
    /\ UNCHANGED bvars
    /\ UNCHANGED <<prog, ip, mainst, c, pc, wake, sent, received, stdout>>

GoStep == MainStep \/ \E d \in Sites : DownloadStep(d)

\* A second passes, the steps of the goroutines taking no time: the clock
\* moves only when every goroutine is parked or sleeping.
TickIdle ==
    /\ Alive
    /\ ~ENABLED GoStep /\ TimerPending
    /\ clock' = clock + 1
    /\ UNCHANGED hvars
    /\ UNCHANGED bvars
    /\ UNCHANGED <<prog, ip, mainst, c, pc, wake, sent, received, stdout>>

NoHeader == [ContentType |-> "", XContentTypeOptions |-> ""]

\* A ResponseWriter nothing has been written to (status 0: no header sent).
NewResponseWriter == [status |-> 0, header |-> NoHeader, sentHeader |-> NoHeader, body |-> <<>>]

\* var newBook Book
ZeroBook == [Title |-> "", Author |-> ""]

InitHandlerIdle ==
    /\ hpc = "idle"
    /\ r = [Method |-> "", Body |-> <<>>]
    /\ w = NewResponseWriter
    /\ newBook = ZeroBook
    /\ decoded = 0
    /\ hlog = <<>>

\* var db *sql.DB
NilDB == [state |-> "nil", maxOpen |-> 0, maxIdle |-> 0]

\* No database program is running.
InitNoDatabase ==
    /\ program = "none"
    /\ dbpc = "exited"
    /\ db = NilDB
    /\ tx = "none"
    /\ defers = <<>>
    /\ exit = "running"
    /\ pending = <<>>
    /\ tables = [orders |-> 0, inventory |-> 0]
    /\ calls = [Rollback |-> 0, Close |-> 0]
    /\ failed = ""
    /\ dblog = <<>>
    /\ served = 0

Init == prog = MainProgram /\ InitDownloader /\ InitHandlerIdle /\ InitNoDatabase

Next == GoStep \/ Tick

Spec == Init /\ [][Next]_vars

\* main with its first k go statements and n receive statements.
ProgramVariant(k, n) ==
    <<StmtMake>> \o [i \in 1..k |-> StmtGo(LaunchOrder[i])]
                \o [i \in 1..n |-> StmtRecv] \o <<StmtPrintln>>

\* The Word of Caution: main receiving more, or launching less, than the
\* program of the article does.
CautionInit ==
    /\ \E k \in 0..Len(LaunchOrder), n \in 0..MaxReceives : prog = ProgramVariant(k, n)
    /\ InitDownloader /\ InitHandlerIdle /\ InitNoDatabase

CautionSpec == CautionInit /\ [][Next]_vars

TimedNext == GoStep \/ TickIdle

TimedSpec == Init /\ [][TimedNext]_vars

\* The Go scheduler runs every runnable goroutine eventually, and time passes.
FairSpec ==
    /\ Spec
    /\ WF_vars(MainStep)
    /\ \A d \in Sites : WF_vars(DownloadStep(d))
    /\ WF_vars(Tick)

----------------------------------------------------------------------------
(* The JSON API: bookHandler                                               *)

\* Request methods; http.MethodPost is "POST".
Methods == {"GET", "POST", "DELETE"}

MethodPost == "POST"

StatusOK == 200
StatusBadRequest == 400
StatusMethodNotAllowed == 405

\* A request body, as JSON tokens: braces, the colon, the string "title",
\* another string, a number.
Tokens == {"{", "}", ":", "title", "str", "num"}

StringTokens == {"title", "str"}

Bodies == UNION {[1..n -> Tokens] : n \in 0..MaxBodyLen}

SyntaxError == [ok |-> FALSE, next |-> 0, kind |-> "", key |-> "", val |-> "", str |-> ""]

\* The decoder reads one JSON value of body b from token i: a string, a
\* number, {} or an object of one member.  ok: a value was read; next: the
\* token after it; kind: the value's kind; key, val, str: an object's
\* member's name, its value's kind and, for a string, the string.
RECURSIVE ReadValue(_, _)
ReadValue(b, i) ==
    IF i > Len(b) THEN SyntaxError
    ELSE IF b[i] \in StringTokens
    THEN [ok |-> TRUE, next |-> i + 1, kind |-> "string", key |-> "", val |-> "", str |-> b[i]]
    ELSE IF b[i] = "num"
    THEN [ok |-> TRUE, next |-> i + 1, kind |-> "number", key |-> "", val |-> "", str |-> ""]
    ELSE IF b[i] = "{"
    THEN IF i + 1 <= Len(b) /\ b[i + 1] = "}"
         THEN [ok |-> TRUE, next |-> i + 2, kind |-> "object", key |-> "", val |-> "", str |-> ""]
         ELSE IF i + 2 <= Len(b) /\ b[i + 1] \in StringTokens /\ b[i + 2] = ":"
         THEN LET v == ReadValue(b, i + 3) IN
              IF v.ok /\ v.next <= Len(b) /\ b[v.next] = "}"
              THEN [ok |-> TRUE, next |-> v.next + 1, kind |-> "object",
                    key |-> b[i + 1], val |-> v.kind, str |-> v.str]
              ELSE SyntaxError
         ELSE SyntaxError
    ELSE SyntaxError

\* err != nil of json.NewDecoder(r.Body).Decode(&newBook): no value in the body
\* (EOF), a malformed one, a value that is no object, or a title that is no
\* string.  Whatever follows the first value is not read.
DecodeFails(body) ==
    LET v == ReadValue(body, 1) IN
    \/ ~v.ok
    \/ v.kind # "object"
    \/ v.key = "title" /\ v.val # "string"

\* newBook after a Decode that succeeded.
DecodedBook(body) ==
    LET v == ReadValue(body, 1) IN
    IF v.key = "title" THEN [ZeroBook EXCEPT !.Title = v.str] ELSE ZeroBook

\* w.WriteHeader(code): the first call sends the status and the headers as
\* they are then; later calls change nothing.
WriteHeader(rw, code) ==
    IF rw.status # 0 THEN rw
    ELSE [rw EXCEPT !.status = code, !.sentHeader = rw.header]

\* w.Write(line): sends the header with 200 if none was sent yet.
Write(rw, line) ==
    LET h == WriteHeader(rw, StatusOK) IN [h EXCEPT !.body = Append(@, line)]

\* http.Error(w, msg, code)
HttpError(rw, msg, code) ==
    LET h == [rw EXCEPT !.header = [ContentType |-> "text/plain; charset=utf-8",
                                    XContentTypeOptions |-> "nosniff"]]
    IN Write(WriteHeader(h, code), msg)

SuccessJSON == "{\"status\":\"success\"}"

\* The server hands a request to bookHandler, with a ResponseWriter of its own.
ServeRequest ==
    /\ hpc = "idle"
    /\ \E m \in Methods, b \in Bodies : r' = [Method |-> m, Body |-> b]
    /\ w' = NewResponseWriter
    /\ newBook' = ZeroBook
    /\ decoded' = 0
    /\ hpc' = "method"
    /\ UNCHANGED hlog
    /\ UNCHANGED dvars
    /\ UNCHANGED bvars

\* (variant: the return after http.Error is missing)
CheckMethodNoReturn ==
    /\ hpc = "method"
    /\ w' = IF r.Method # MethodPost
            THEN HttpError(w, "Method not allowed", StatusMethodNotAllowed) ELSE w
    /\ hpc' = "decode"
    /\ UNCHANGED <<r, newBook, decoded, hlog>>
    /\ UNCHANGED dvars
    /\ UNCHANGED bvars

\* if r.Method != http.MethodPost { http.Error(...); return }
CheckMethod ==
    /\ hpc = "method"
    /\ IF r.Method # MethodPost
       THEN /\ w' = HttpError(w, "Method not allowed", StatusMethodNotAllowed)
            /\ hpc' = "returned"
       ELSE /\ w' = w
            /\ hpc' = "decode"
    /\ UNCHANGED <<r, newBook, decoded, hlog>>
    /\ UNCHANGED dvars
    /\ UNCHANGED bvars

\* err := json.NewDecoder(r.Body).Decode(&newBook)
\* if err != nil { http.Error(...); return }
Decode ==
    /\ hpc = "decode"
    /\ decoded' = decoded + 1
    /\ IF DecodeFails(r.Body)
       THEN /\ w' = HttpError(w, "Invalid JSON data", StatusBadRequest)
            /\ hpc' = "returned"
            /\ UNCHANGED newBook
       ELSE /\ newBook' = DecodedBook(r.Body)
            /\ hpc' = "respond"
            /\ UNCHANGED w
    /\ UNCHANGED <<r, hlog>>
    /\ UNCHANGED dvars
    /\ UNCHANGED bvars

\* fmt.Printf("Received book: ..."); w.Header().Set("Content-Type", ...);
\* json.NewEncoder(w).Encode(map[string]string{"status": "success"})
Respond ==
    /\ hpc = "respond"
    /\ hlog' = <<"Received book: " \o newBook.Title \o " by " \o newBook.Author>>
    /\ w' = Write([w EXCEPT !.header.ContentType = "application/json"], SuccessJSON)
    /\ hpc' = "returned"
    /\ UNCHANGED <<r, newBook, decoded>>
    /\ UNCHANGED dvars
    /\ UNCHANGED bvars

\* bookHandler has returned: the response is complete, the request and its
\* ResponseWriter are gone and the server is ready for the next request.
Finish ==
    /\ hpc = "returned"
    /\ hpc' = "idle"
    /\ r' = [Method |-> "", Body |-> <<>>]
    /\ w' = NewResponseWriter
    /\ newBook' = ZeroBook
    /\ decoded' = 0
    /\ UNCHANGED hlog
    /\ UNCHANGED dvars
    /\ UNCHANGED bvars

BookInit == prog = MainProgram /\ InitDownloader /\ InitHandlerIdle /\ InitNoDatabase

BookNext == ServeRequest \/ CheckMethod \/ Decode \/ Respond \/ Finish

BookSpec == BookInit /\ [][BookNext]_vars

----------------------------------------------------------------------------
(* The database programs: connecting-to-databases.go                       *)

DbPrograms == {"basic", "crud", "tx"}

\* db.SetMaxOpenConns(25); db.SetMaxIdleConns(25)
PoolSize == 25

OpenDB == [state |-> "open", maxOpen |-> 0, maxIdle |-> 0]

\* The effect of the statements of a transaction on the tables.
RECURSIVE Apply(_, _)
Apply(stmts, t) ==
    IF stmts = <<>> THEN t
    ELSE Apply(Tail(stmts),
               IF Head(stmts) = "INSERT INTO orders"
               THEN [t EXCEPT !.orders = @ + 1]
               ELSE [t EXCEPT !.inventory = @ - 1])

\* log.Fatal(e): e is printed and the process ends with os.Exit(1); the
\* calls main has deferred are not run.
LogFatal(e) ==
    /\ dblog' = Append(dblog, e)
    /\ exit' = "os.Exit(1)"
    /\ dbpc' = "exited"
    /\ UNCHANGED <<db, defers, calls>>

\* The process is gone and its connections with it: the server discards
\* what an open transaction had not committed.
ConnectionDropped ==
    /\ tx' = IF tx = "open" THEN "aborted" ELSE tx
    /\ pending' = <<>>

\* defer call(): call is run when the surrounding function returns.
Defer(call) == Append(defers, call)

InitDatabase ==
    /\ program \in DbPrograms
    /\ dbpc = IF program = "tx" THEN "begin" ELSE "open"
    /\ db = IF program = "tx" THEN OpenDB ELSE NilDB
    /\ tx = "none"
    /\ defers = <<>>
    /\ exit = "running"
    /\ pending = <<>>
    /\ \E k \in 0..MaxStock : tables = [orders |-> 0, inventory |-> k]
    /\ calls = [Rollback |-> 0, Close |-> 0]
    /\ failed = ""
    /\ dblog = <<>>
    /\ served = 0

\* tx, err := db.Begin(); if err != nil { log.Fatal(err) }
TxBegin ==
    /\ program = "tx" /\ dbpc = "begin"
    /\ \E ok \in BOOLEAN :
          IF ok
          THEN /\ tx' = "open"
               /\ dbpc' = "defer"
               /\ UNCHANGED <<db, defers, exit, pending, calls, failed, dblog>>
          ELSE /\ failed' = "db.Begin"
               /\ LogFatal("db.Begin")
               /\ UNCHANGED <<tx, pending>>
    /\ UNCHANGED <<program, tables, served>>
    /\ UNCHANGED <<dvars, hvars>>

\* defer tx.Rollback()
TxDefer ==
    /\ program = "tx" /\ dbpc = "defer"
    /\ defers' = Defer("tx.Rollback")
    /\ dbpc' = "insert"
    /\ UNCHANGED <<program, db, tx, exit, pending, tables, calls, failed, dblog, served>>
    /\ UNCHANGED <<dvars, hvars>>

\* _, err = tx.Exec(stmt, ...); if err != nil { log.Fatal(err) }
TxExec(at, stmt, then) ==
    /\ program = "tx" /\ dbpc = at
    /\ \E ok \in BOOLEAN :
          IF ok
          THEN /\ pending' = Append(pending, stmt)
               /\ dbpc' = then
               /\ UNCHANGED <<db, tx, defers, exit, calls, failed, dblog>>
          ELSE /\ failed' = "tx.Exec"
               /\ LogFatal("tx.Exec: " \o stmt)
               /\ ConnectionDropped
    /\ UNCHANGED <<program, tables, served>>
    /\ UNCHANGED <<dvars, hvars>>

TxExecInsert == TxExec("insert", "INSERT INTO orders", "update")

TxExecUpdate == TxExec("update", "UPDATE inventory", "commit")

\* err = tx.Commit(); if err != nil { log.Fatal(err) }
\* A Commit that returns an error has committed everything or nothing.
TxCommit ==
    /\ program = "tx" /\ dbpc = "commit"
    /\ \E ok \in BOOLEAN, applied \in BOOLEAN :
          /\ ok => applied
          /\ tables' = IF applied THEN Apply(pending, tables) ELSE tables
          /\ tx' = IF applied THEN "committed" ELSE "aborted"
          /\ pending' = <<>>
          /\ IF ok
             THEN /\ dbpc' = "return"
                  /\ UNCHANGED <<db, defers, exit, calls, failed, dblog>>
             ELSE /\ failed' = "tx.Commit"
                  /\ LogFatal("tx.Commit")
    /\ UNCHANGED <<program, served>>
    /\ UNCHANGED <<dvars, hvars>>

\* db, err := sql.Open(...); if err != nil { fmt.Println(...); return }
BasicOpen ==
    /\ program = "basic" /\ dbpc = "open"
    /\ \E ok \in BOOLEAN :
          IF ok
          THEN /\ db' = OpenDB
               /\ dbpc' = "defer"
               /\ UNCHANGED <<failed, dblog>>
          ELSE /\ failed' = "sql.Open"
               /\ dblog' = Append(dblog, "Error opening database:")
               /\ dbpc' = "return"
               /\ UNCHANGED db
    /\ UNCHANGED <<program, tx, defers, exit, pending, tables, calls, served>>
    /\ UNCHANGED <<dvars, hvars>>

\* defer db.Close()
BasicDefer ==
    /\ program = "basic" /\ dbpc = "defer"
    /\ defers' = Defer("db.Close")
    /\ dbpc' = "ping"
    /\ UNCHANGED <<program, db, tx, exit, pending, tables, calls, failed, dblog, served>>
    /\ UNCHANGED <<dvars, hvars>>

\* err = db.Ping(); if err != nil { fmt.Println(...); return }
\* fmt.Println("Successfully connected to MySQL!")
BasicPing ==
    /\ program = "basic" /\ dbpc = "ping"
    /\ \E ok \in BOOLEAN :
          IF ok
          THEN /\ dblog' = Append(dblog, "Successfully connected to MySQL!")
               /\ UNCHANGED failed
          ELSE /\ failed' = "db.Ping"
               /\ dblog' = Append(dblog, "Error connecting to database:")
    /\ dbpc' = "return"
    /\ UNCHANGED <<program, db, tx, defers, exit, pending, tables, calls, served>>
    /\ UNCHANGED <<dvars, hvars>>

\* initDB: db, err = sql.Open(...); if err != nil { log.Fatal(err) }
CrudOpen ==
    /\ program = "crud" /\ dbpc = "open"
    /\ \E ok \in BOOLEAN :
          IF ok
          THEN /\ db' = OpenDB
               /\ dbpc' = "ping"
               /\ UNCHANGED <<defers, exit, calls, failed, dblog>>
          ELSE /\ failed' = "sql.Open"
               /\ LogFatal("sql.Open")
    /\ UNCHANGED <<program, tx, pending, tables, served>>
    /\ UNCHANGED <<dvars, hvars>>

\* initDB: if err = db.Ping(); err != nil { log.Fatal(err) }
\* db.SetMaxOpenConns(25); db.SetMaxIdleConns(25)
CrudPing ==
    /\ program = "crud" /\ dbpc = "ping"
    /\ \E ok \in BOOLEAN :
          IF ok
          THEN /\ db' = [db EXCEPT !.maxOpen = PoolSize, !.maxIdle = PoolSize]
               /\ dbpc' = "defer"
               /\ UNCHANGED <<defers, exit, calls, failed, dblog>>
          ELSE /\ failed' = "db.Ping"
               /\ LogFatal("db.Ping")
    /\ UNCHANGED <<program, tx, pending, tables, served>>
    /\ UNCHANGED <<dvars, hvars>>

\* main: defer db.Close(); http.HandleFunc("/users", getUsers);
\* log.Println("Server starting on :8080")
CrudDefer ==
    /\ program = "crud" /\ dbpc = "defer"
    /\ defers' = Defer("db.Close")
    /\ dblog' = Append(dblog, "Server starting on :8080")
    /\ dbpc' = "listen"
    /\ UNCHANGED <<program, db, tx, exit, pending, tables, calls, failed, served>>
    /\ UNCHANGED <<dvars, hvars>>

\* http.ListenAndServe is serving: getUsers answers a request (its rows are
\* closed by its own defer when it returns).
CrudServe ==
    /\ program = "crud" /\ dbpc = "listen"
    /\ served < MaxRequests
    /\ served' = served + 1
    /\ UNCHANGED <<program, dbpc, db, tx, defers, exit, pending, tables, calls, failed, dblog>>
    /\ UNCHANGED <<dvars, hvars>>

\* log.Fatal(http.ListenAndServe(":8080", nil)): ListenAndServe returns only
\* with an error, at once (the port is taken) or later.
CrudListenFails ==
    /\ program = "crud" /\ dbpc = "listen"
    /\ failed' = "http.ListenAndServe"
    /\ LogFatal("http.ListenAndServe")
    /\ UNCHANGED <<program, tx, pending, tables, served>>
    /\ UNCHANGED <<dvars, hvars>>

\* main returns: the last call deferred and not yet run is run.  tx.Rollback
\* on a transaction already committed does nothing (sql.ErrTxDone).
RunDeferred ==
    /\ program \in DbPrograms /\ dbpc = "return" /\ defers # <<>>
    /\ LET call == defers[Len(defers)] IN
       /\ defers' = SubSeq(defers, 1, Len(defers) - 1)
       /\ IF call = "db.Close"
          THEN /\ db' = [db EXCEPT !.state = "closed"]
               /\ calls' = [calls EXCEPT !.Close = @ + 1]
               /\ ConnectionDropped
          ELSE /\ calls' = [calls EXCEPT !.Rollback = @ + 1]
               /\ tx' = IF tx = "open" THEN "rolledback" ELSE tx
               /\ pending' = <<>>
               /\ UNCHANGED db
    /\ UNCHANGED <<program, dbpc, exit, tables, failed, dblog, served>>
    /\ UNCHANGED <<dvars, hvars>>

\* main has returned and its deferred calls have run: the process ends.
ProcessReturns ==
    /\ program \in DbPrograms /\ dbpc = "return" /\ defers = <<>>
    /\ exit' = "returned"
    /\ dbpc' = "exited"
    /\ ConnectionDropped
    /\ UNCHANGED <<program, db, defers, tables, calls, failed, dblog, served>>
    /\ UNCHANGED <<dvars, hvars>>

DbInit == prog = MainProgram /\ InitDownloader /\ InitHandlerIdle /\ InitDatabase

DbNext ==
    \/ TxBegin \/ TxDefer \/ TxExecInsert \/ TxExecUpdate \/ TxCommit
    \/ BasicOpen \/ BasicDefer \/ BasicPing
    \/ CrudOpen \/ CrudPing \/ CrudDefer \/ CrudServe \/ CrudListenFails
    \/ RunDeferred \/ ProcessReturns

DbSpec == DbInit /\ [][DbNext]_vars

----------------------------------------------------------------------------
(* Properties of the downloader.                                           *)

SentTotal == sent["Google.com"] + sent["Amazon.com"] + sent["Github.com"]

Count(seq, x) == Cardinality({i \in 1..Len(seq) : seq[i] = x})

\* The message each site's download is to deliver.
Expected ==
    [d \in Sites |->
        CASE d = "Google.com" -> "Google.com is done!"
          [] d = "Amazon.com" -> "Amazon.com is done!"
          [] d = "Github.com" -> "Github.com is done!"]

MainReceiving == mainst = "parked" \/ (mainst = "run" /\ CurStmt.op = "recv")

\* C1: main performs exactly 3 receives: it is at (or past) the
\* "All downloads finished!" statement only with 3 results received, it never
\* holds more than 3, and it never starts a receive with 3 already received.
C1_ExactlyThreeReceives ==
    /\ Len(received) <= 3
    /\ (CurStmt.op \in {"println", "return"}) => Len(received) = 3
    /\ MainReceiving => Len(received) < 3

C1_Witness ==
    /\ mainst = "exit"
    /\ Len(received) = 3
    /\ stdout[Len(stdout)] = FinishedLine

\* C2: no loss, no duplication: no message is ever received twice, every
\* message received is the one of a download whose send completed, and when
\* main has finished it has received each site's message exactly once.
C2_NoLossNoDuplication ==
    /\ \A d \in Sites : Count(received, Expected[d]) = sent[d]
    /\ \A i, j \in 1..Len(received) : received[i] = received[j] => i = j
    /\ mainst = "exit" =>
          /\ Len(received) = 3
          /\ \A d \in Sites : Count(received, Expected[d]) = 1

C2_Witness ==
    /\ mainst = "exit"
    /\ received = <<"Amazon.com is done!", "Github.com is done!", "Google.com is done!">>

\* C3: every launched download eventually completes its send and its message
\* reaches main (liveness, under fair scheduling), and no download's send
\* completes more than once (safety).
C3_ExactlyOneResult ==
    /\ \A d \in Sites : [](sent[d] <= 1)
    /\ \A d \in Sites :
          (pc[d] # "idle") ~> (sent[d] = 1 /\ Count(received, Expected[d]) = 1)

C3_Witness ==
    /\ pc["Github.com"] = "done" /\ sent["Github.com"] = 1
    /\ pc["Google.com"] = "sleep" /\ sent["Google.com"] = 0

\* C4: rendezvous: completed sends and completed receives are always equal
\* in number and nothing is ever queued in c; a send completes only in a step
\* in which main, at a receive, takes the value; a download parked at its
\* send stays parked through every step in which main receives nothing.
C4_Rendezvous ==
    /\ [](SentTotal = Len(received) /\ c.buf = <<>>)
    /\ [][\A d \in Sites :
            /\ sent'[d] > sent[d] =>
                  /\ MainReceiving
                  /\ received' = Append(received, Expected[d])
            /\ (pc[d] = "blocked" /\ received' = received) => pc'[d] = "blocked"]_vars

C4_Witness ==
    /\ pc["Google.com"] = "blocked"
    /\ c.sendq = <<[g |-> "Google.com", elem |-> "Google.com is done!"]>>
    /\ CurStmt.op = "go"
    /\ sent["Google.com"] = 0

\* C5: the results received never outnumber the downloads launched so far,
\* and when main has completed both counts are 3.
C5_ReceivedAtMostLaunched ==
    /\ Len(received) <= Cardinality(Launched)
    /\ mainst = "exit" => (Len(received) = 3 /\ Cardinality(Launched) = 3)

C5_Witness ==
    /\ Len(received) = 2
    /\ Cardinality(Launched) = 3
    /\ mainst = "parked"

\* A caller-supplied timeout shorter than a download.
Timeout == SleepSeconds - 1

\* C6 (as claimed): the collector does not wait beyond the timeout: once
\* Timeout seconds have passed with results outstanding, main has stopped
\* waiting in its receive.
C6_StopsWaitingAtTimeout ==
    (clock >= Timeout /\ Len(received) < 3) => mainst # "parked"

\* C6 (amended): main has no timeout.  A receive of main that has blocked ends
\* only by receiving a value, however much time has passed; main prints
\* nothing but results and the final line, and never returns with a result
\* outstanding.
C6_ReceiveEndsOnlyByValue ==
    /\ [][(mainst = "parked" /\ mainst' # "parked") =>
            (mainst' = "got" /\ Len(received') = Len(received) + 1)]_vars
    /\ [](mainst = "exit" => Len(received) = 3)
    /\ [](\A i \in 1..Len(stdout) :
            \/ \E d \in Sites : stdout[i] \in {StartLine(d), Expected[d]}
            \/ stdout[i] = FinishedLine)

C6_Witness ==
    /\ mainst = "parked"
    /\ clock > SleepSeconds + Timeout
    /\ Len(received) = 0
    /\ \E d \in Sites : pc[d] = "sleep"

\* The results main has printed, in the order printed.
PrintedResults == SelectSeq(stdout, LAMBDA l : \E d \in Sites : l = Expected[d])

\* C7: arrival order is free and does not matter: a download that has slept
\* can execute its send whatever the others have done (so the sends, and with
\* them the receives, happen in any order); main prints the results in the
\* order received; and whatever that order, main ends with all three.
C7_AnyArrivalOrder ==
    /\ \A d \in Sites : (Alive /\ pc[d] = "send") => ENABLED DownloadSend(d)
    /\ \A d \in Sites : (Alive /\ pc[d] = "sleep" /\ clock >= wake[d])
                            => ENABLED DownloadWake(d)
    /\ mainst \in {"run", "parked", "exit"} => PrintedResults = received
    /\ mainst = "exit" => {received[i] : i \in 1..3} = {Expected[d] : d \in Sites}

\* The six arrival orders.
ArrivedInOrder(a, b, d) ==
    mainst = "exit" /\ received = <<Expected[a], Expected[b], Expected[d]>>

C7_Order_GoogleAmazonGithub == ArrivedInOrder("Google.com", "Amazon.com", "Github.com")
C7_Order_GoogleGithubAmazon == ArrivedInOrder("Google.com", "Github.com", "Amazon.com")
C7_Order_AmazonGoogleGithub == ArrivedInOrder("Amazon.com", "Google.com", "Github.com")
C7_Order_GithubGoogleAmazon == ArrivedInOrder("Github.com", "Google.com", "Amazon.com")
C7_Order_GithubAmazonGoogle == ArrivedInOrder("Github.com", "Amazon.com", "Google.com")

\* The reverse of the launch order, with the three senders queued in it.
C7_Witness ==
    /\ c.sendq = <<[g |-> "Github.com", elem |-> Expected["Github.com"]],
                   [g |-> "Amazon.com", elem |-> Expected["Amazon.com"]],
                   [g |-> "Google.com", elem |-> Expected["Google.com"]]>>
    /\ CurStmt.op = "recv"

\* C8: with steps taking no time, main launches all three downloads at time
\* 0, their sleeps all run from 0 to SleepSeconds, and main returns at
\* SleepSeconds, not at 3 * SleepSeconds.
C8_RunTakesOneSleep ==
    /\ Cardinality(Launched) < 3 => clock = 0
    /\ CurStmt.op \in {"make", "go"} => \A d \in Sites : pc[d] \in {"idle", "start", "sleep"}
    /\ \A d \in Sites : pc[d] \notin {"idle", "start"} => wake[d] = SleepSeconds
    /\ mainst = "exit" => (clock = SleepSeconds /\ clock < 3 * SleepSeconds)

C8_Witness ==
    /\ mainst = "exit"
    /\ clock = 2
    /\ Len(received) = 3

NumGo(p) == Cardinality({i \in 1..Len(p) : p[i].op = "go"})
NumRecv(p) == Cardinality({i \in 1..Len(p) : p[i].op = "recv"})

\* No download will send any more: each has returned, or is never launched.
NoSenderLeft ==
    \A d \in Sites :
        \/ pc[d] = "done"
        \/ pc[d] = "idle" /\ \A i \in ip..Len(prog) : prog[i] # StmtGo(d)

Deadlocked == mainst = "parked" /\ NoSenderLeft

\* C9: a receive of main with no sender left parks main in a state where no
\* goroutine can step, and main stays there for ever; a main with more
\* receives than launches never returns; and with 3 receives for 3 launches,
\* while main has not returned some goroutine can step or is sleeping.
C9_DeadlockOnUnmatchedReceive ==
    /\ [](Deadlocked => ~ENABLED GoStep)
    /\ [][Deadlocked => Deadlocked']_vars
    /\ []((mainst = "run" /\ CurStmt.op = "recv" /\ NoSenderLeft) => ENABLED MainRecv)
    /\ [][(mainst = "run" /\ CurStmt.op = "recv" /\ NoSenderLeft /\ mainst' # mainst)
            => Deadlocked']_vars
    /\ [](NumRecv(prog) > NumGo(prog) => mainst # "exit")
    /\ []((NumRecv(prog) = 3 /\ NumGo(prog) = 3 /\ Alive) =>
            (~Deadlocked /\ (ENABLED GoStep \/ TimerPending)))

\* The fourth receive after the three downloads have each sent once.
C9_Witness ==
    /\ Deadlocked
    /\ NumRecv(prog) = 4
    /\ Len(received) = 3
    /\ \A d \in Sites : sent[d] = 1

----------------------------------------------------------------------------
(* Properties of bookHandler.                                              *)

\* C10: one outcome per request, in this order: not POST: 405 "Method not
\* allowed", the body never decoded; POST and a body that fails to decode: 400
\* "Invalid JSON data"; POST and a body that decodes: 200, the success JSON,
\* Content-Type application/json.  No response holds an error message and
\* the success JSON, and only a POST body is ever decoded.
C10_OneOutcomePerRequest ==
    /\ decoded > 0 => r.Method = "POST"
    /\ Len(w.body) <= 1
    /\ hpc = "returned" =>
          /\ Len(w.body) = 1
          /\ r.Method # "POST" =>
                /\ w.status = 405 /\ w.body = <<"Method not allowed">>
                /\ decoded = 0
          /\ (r.Method = "POST" /\ DecodeFails(r.Body)) =>
                /\ w.status = 400 /\ w.body = <<"Invalid JSON data">>
          /\ (r.Method = "POST" /\ ~DecodeFails(r.Body)) =>
                /\ w.status = 200 /\ w.body = <<"{\"status\":\"success\"}">>
                /\ w.sentHeader.ContentType = "application/json"
          /\ r.Body \in {<<>>, <<"str">>, <<"{">>, <<"{", "title", ":", "num", "}">>,
                         <<"{", "title", "}">>}
                => w.status # 200
          /\ (r.Method = "POST" /\
              r.Body \in {<<"{", "}">>, <<"{", "title", ":", "str", "}">>,
                          <<"{", "str", ":", "num", "}">>, <<"{", "}", ":">>})
                => w.status = 200

\* A POST with a decodable body has been answered, after a request refused.
C10_Witness ==
    /\ hpc = "returned"
    /\ r = [Method |-> "POST", Body |-> <<"{", "title", ":", "str", "}">>]
    /\ w.status = 200
    /\ newBook.Title = "str"
    /\ decoded = 1

C10_WitnessNotPost ==
    /\ hpc = "returned" /\ r.Method = "GET" /\ w.status = 405

C10_WitnessBadJSON ==
    /\ hpc = "returned" /\ r.Method = "POST" /\ w.status = 400
    /\ r.Body = <<"{", "title", ":", "num", "}">>


----------------------------------------------------------------------------
(* Properties of the database programs.                                    *)

\* The process of the program has ended.
Ended == exit # "running"

\* C11: in the transaction snippet, whenever Begin succeeded and tx.Exec or
\* tx.Commit returned an error, tx.Rollback has been executed by the time the
\* program ends, and the insert into orders and the update of inventory have
\* both taken effect or neither has.
C11_RollbackOnEveryError ==
    (program = "tx" /\ Ended)
        => /\ failed \in {"tx.Exec", "tx.Commit"} => calls.Rollback > 0
           /\ \E k \in 0..MaxStock :
                 \/ tables = [orders |-> 0, inventory |-> k]
                 \/ tables = [orders |-> 1, inventory |-> k - 1]

\* C12: in the basic connection program and in the CRUD API program, on every
\* path by which the program ends after sql.Open succeeded, db.Close has been
\* executed before the process exits.
C12_ClosedOnEveryExit ==
    (program \in {"basic", "crud"} /\ Ended /\ db # NilDB)
        => (calls.Close > 0 /\ db.state = "closed")

====
